---- MODULE Spec2Model ----
(***************************************************************************)
(* Model of the CodeAuth Go SDK (src/main.go): the package-level           *)
(* configuration and session cache, the mutex that guards them, and the    *)
(* Initialize function and the seven public operations, each split at the  *)
(* points where another goroutine can interleave (Lock, Unlock, the HTTP   *)
(* call, and the individual statements executed under the lock).           *)
(*                                                                         *)
(* JSON values are encoded as strings; a value that is not a Go string     *)
(* (a number, or a key that is missing) is encoded with a leading "#".     *)
(* A result map carries the two keys the code inspects, "error" and        *)
(* "session_token"; a nil map and an empty map read the same.              *)
(***************************************************************************)
EXTENDS Integers, FiniteSets, Sequences, TLC

\* ---- bounds ------------------------------------------------------------
MaxTime == 2

\* ---- finite input domains ----------------------------------------------
Threads == {"g1", "g2"}
Tokens  == {"tok1", "tok2"}
Modes   == {"only_this", "all", "all_but_this"}

Nil      == "#nil"
NoThread == "none"

\* Initialize(project_endpoint, project_id, use_cache, cache_duration)
Configs ==
    { [project_endpoint |-> "api.one", project_id |-> "proj1",
       use_cache |-> TRUE,  cache_duration |-> 1],
      [project_endpoint |-> "api.two", project_id |-> "proj2",
       use_cache |-> FALSE, cache_duration |-> 1] }

NoConfig == [project_endpoint |-> "", project_id |-> "",
             use_cache |-> FALSE, cache_duration |-> 0]

\* map[string]interface{} restricted to the keys the code reads
NilMap  == [error |-> Nil, session_token |-> Nil]
ConnErr == [error |-> "connection_error", session_token |-> Nil]

\* the operations whose documented answer carries a session_token
IssuingOps == {"SignInEmailVerify", "SignInSocialVerify", "SessionRefresh"}

\* JSON objects the remote service may answer a call of operation o with
\* under status 200: one without session_token, and for the operations that
\* issue a token, one per token
Bodies200(o) ==
    { NilMap } \cup
    IF o \in IssuingOps
    THEN { [error |-> Nil, session_token |-> k] : k \in Tokens }
    ELSE {}

BodiesOther ==
    { NilMap, [error |-> "bad_session_token", session_token |-> Nil] }

\* What one HTTP exchange of operation o can come to: a failure before a
\* JSON object was decoded, or a decoded response (status, JSON null or
\* JSON object).
Outcomes(o) ==
    { [fail |-> TRUE, status |-> 0, null |-> FALSE, body |-> NilMap] }
    \cup { [fail |-> FALSE, status |-> 200, null |-> FALSE, body |-> b] :
              b \in Bodies200(o) }
    \cup { [fail |-> FALSE, status |-> 400, null |-> FALSE, body |-> b] :
              b \in BodiesOther }
    \cup { [fail |-> FALSE, status |-> s, null |-> TRUE, body |-> NilMap] :
              s \in {200, 400} }

\* the token whose history the observer variable "gone" follows
TrackTok == "tok1"

VARIABLES
    hasInitialized, endpoint, projectID, useCache, cacheDuration,
    cacheSession, cacheExpiration, mutex,
    now,        \* the wall clock read by time.Now()
    nInit,      \* number of Initialize calls that returned normally
    pc, op, tok, mode, cfg, res, out,
    calls,      \* HTTP exchanges made by the running/last call of t
    track,      \* which observer is recording: "off", "mut", "tok",
                \* "http" or "age"
    mut,        \* observer: the running/last call of t changed the cache
    gone,       \* observer: the last removal of TrackTok not yet superseded
    lastHttp,   \* observer: the HTTP exchange of the running/last call of t
    insAt       \* observer: when the record under TrackTok was stored

globals == <<hasInitialized, endpoint, projectID, useCache, cacheDuration,
             cacheSession, cacheExpiration>>
locals  == <<pc, op, tok, mode, cfg, res, out, calls>>
ghosts  == <<track, mut, gone, lastHttp, insAt>>
vars    == <<globals, mutex, now, nInit, locals, ghosts>>

\* ---- pure helpers -------------------------------------------------------

\* cacheSession = make(map[string]map[string]interface{})
EmptyCache == [k \in {} |-> NilMap]

\* cacheSession[k] = v
MapPut(m, k, v) == [x \in (DOMAIN m) \cup {k} |-> IF x = k THEN v ELSE m[x]]

\* variant: nothing is deleted
MapDeleteNothing(m, k) == m

\* variant: the whole map is dropped
MapDeleteAll(m, k) == [x \in {} |-> m[x]]

\* delete(cacheSession, k)
MapDelete(m, k) == [x \in (DOMAIN m) \ {k} |-> m[x]]

\* variant: only the synthesized connection failure counts as an error
IsNoErrorLoose(r) == r.error # "connection_error"

\* result["error"] == "no_error"
IsNoError(r) == r.error = "no_error"

\* result["session_token"].(string) succeeds
IsString(v) == v # Nil

\* time.Now().After(cacheExpiration)
Expired(t, deadline) == t > deadline

\* variant: After in place of Before
FreshInverted(t, deadline) == t > deadline

\* variant: the deadline instant itself counts as inside the window
FreshInclusive(t, deadline) == t <= deadline

\* time.Now().Before(cacheExpiration)
Fresh(t, deadline) == t < deadline

\* callApiRequest: the map returned for one HTTP exchange.  Writing "error"
\* into the nil map decoded from JSON null panics; the deferred recover()
\* swallows the panic and the function returns its zero value, a nil map.
callApiRequest(o) ==
    IF o.fail THEN ConnErr
    ELSE IF o.status = 200
         THEN IF o.null THEN NilMap
              ELSE [o.body EXCEPT !.error = "no_error"]
         ELSE IF o.null THEN NilMap ELSE o.body

\* variant: the check is missing
NeverFails(flag) == FALSE

\* ensureInitialized: the condition of its panic
NotInitialized(flag) == ~flag

\* variant: the check is missing
NeverRejects(flag) == FALSE

\* Initialize: the condition of its panic
AlreadyInitialized(flag) == flag

\* variant: the window is never reset
ResetNever(uc, t, deadline) == FALSE

\* variant: the deadline is not consulted
ResetAlways(uc, t, deadline) == uc

\* ensureCache() decides to start a new window
ResetDue(uc, t, deadline) == uc /\ Expired(t, deadline)

\* variant: the error test is missing
StoreAlways(uc, r) == uc

\* variant: the useCache test is missing
StoreIgnoringFlag(uc, r) == IsNoError(r)

\* useCache && result["error"] == "no_error"
ShouldStore(uc, r) == uc /\ IsNoError(r)

\* useCache && time.Now().Before(cacheExpiration) && key present
CacheHit(uc, t, deadline, m, k) == uc /\ Fresh(t, deadline) /\ k \in DOMAIN m

\* the holder of the mutex after mutex.Unlock() by t
Released(t) == NoThread

\* variant: the Unlock is placed after the HTTP call
StillHeld(t) == t

\* the holder of the mutex after the mutex.Unlock() that precedes the HTTP
\* call
ReleasedBeforeCall(t) == Released(t)

\* ---- observers ----------------------------------------------------------

\* t's call changed the entries or the deadline
Mutated(t) == mut' = IF track = "mut" THEN [mut EXCEPT ![t] = TRUE] ELSE mut

\* a new call of t starts
MutCleared(t) == mut' = IF track = "mut" THEN [mut EXCEPT ![t] = FALSE] ELSE mut

\* a removal of key k by operation kind ("invalidated" or "refreshed")
\* has completed
Removed(k, kind) ==
    gone' = IF track = "tok" /\ k = TrackTok THEN kind ELSE gone

\* the remote service has just answered a call with a success that will be
\* stored under key k: earlier removals of k are superseded
Answered(k) ==
    gone' = IF track = "tok" /\ k = TrackTok THEN "no" ELSE gone

\* no HTTP exchange has been made
NoHttp == [fail |-> FALSE, status |-> 0, null |-> FALSE, body |-> NilMap]

\* the call of t made the HTTP exchange h
Sent(t, h) ==
    lastHttp' = IF track = "http" THEN [lastHttp EXCEPT ![t] = h] ELSE lastHttp

\* a new call of t starts
HttpCleared(t) ==
    lastHttp' = IF track = "http" THEN [lastHttp EXCEPT ![t] = NoHttp]
                ELSE lastHttp

\* no record is stored under TrackTok
NoTime == 0 - 1

\* a record is stored under key k
Stored(k) == insAt' = IF track = "age" /\ k = TrackTok THEN now ELSE insAt

\* the record under key k is deleted
Dropped(k) == insAt' = IF track = "age" /\ k = TrackTok THEN NoTime ELSE insAt

\* the whole map is replaced by an empty one
Cleared == insAt' = IF track = "age" THEN NoTime ELSE insAt

\* ---- initial state ------------------------------------------------------
InitState ==
    /\ hasInitialized = FALSE
    /\ endpoint = ""
    /\ projectID = ""
    /\ useCache = FALSE
    /\ cacheDuration = 0
    /\ cacheSession = EmptyCache
    /\ cacheExpiration = 0
    /\ mutex = NoThread
    /\ now = 0
    /\ nInit = 0
    /\ pc    = [t \in Threads |-> "idle"]
    /\ op    = [t \in Threads |-> "none"]
    /\ tok   = [t \in Threads |-> ""]
    /\ mode  = [t \in Threads |-> ""]
    /\ cfg   = [t \in Threads |-> NoConfig]
    /\ res   = [t \in Threads |-> NilMap]
    /\ out   = [t \in Threads |-> "none"]
    /\ calls = [t \in Threads |-> 0]
    /\ mut   = [t \in Threads |-> FALSE]
    /\ gone  = "no"
    /\ lastHttp = [t \in Threads |-> NoHttp]
    /\ insAt = NoTime

Init == InitState /\ track = "off"

InitMut == InitState /\ track = "mut"

InitTok == InitState /\ track = "tok"

InitHttp == InitState /\ track = "http"

InitAge == InitState /\ track = "age"

\* ---- the clock ----------------------------------------------------------
Tick ==
    /\ now < MaxTime
    /\ now' = now + 1
    /\ UNCHANGED <<globals, mutex, nInit, locals, ghosts>>

\* ---- steps shared by the functions --------------------------------------

\* variant: the lock is taken without waiting for its holder
LockWithoutWaiting(t, from, to) ==
    /\ pc[t] = from
    /\ mutex' = t
    /\ pc' = [pc EXCEPT ![t] = to]
    /\ UNCHANGED <<globals, now, nInit, op, tok, mode, cfg, res, out, calls, ghosts>>

\* mutex.Lock()
Lock(t, from, to) ==
    /\ pc[t] = from
    /\ mutex = NoThread
    /\ mutex' = t
    /\ pc' = [pc EXCEPT ![t] = to]
    /\ UNCHANGED <<globals, now, nInit, op, tok, mode, cfg, res, out, calls, ghosts>>

\* the function returns (or panics) to its caller with outcome o
Leave(t, o) ==
    /\ pc'   = [pc EXCEPT ![t] = "idle"]
    /\ op'   = [op EXCEPT ![t] = "none"]
    /\ tok'  = [tok EXCEPT ![t] = ""]
    /\ mode' = [mode EXCEPT ![t] = ""]
    /\ cfg'  = [cfg EXCEPT ![t] = NoConfig]
    /\ out'  = [out EXCEPT ![t] = o]

\* ---- Initialize ---------------------------------------------------------
CallInitialize(t) ==
    /\ pc[t] = "idle"
    /\ \E c \in Configs : cfg' = [cfg EXCEPT ![t] = c]
    /\ pc'    = [pc EXCEPT ![t] = "init_lock"]
    /\ op'    = [op EXCEPT ![t] = "Initialize"]
    /\ res'   = [res EXCEPT ![t] = NilMap]
    /\ out'   = [out EXCEPT ![t] = "none"]
    /\ calls' = [calls EXCEPT ![t] = 0]
    /\ MutCleared(t)
    /\ HttpCleared(t)
    /\ UNCHANGED <<globals, mutex, now, nInit, tok, mode, track, gone, insAt>>

InitLock(t) == Lock(t, "init_lock", "init_check")

\* if hasInitialized { panic } (the deferred Unlock runs while unwinding)
InitReject(t) ==
    /\ pc[t] = "init_check"
    /\ AlreadyInitialized(hasInitialized)
    /\ mutex' = Released(t)
    /\ Leave(t, "AlreadyInitialized")
    /\ UNCHANGED <<globals, now, nInit, res, calls, ghosts>>

\* variant: Unlock right after the flag is set instead of a deferred Unlock
InitFlagUnlocks(t) ==
    /\ pc[t] = "init_check"
    /\ ~AlreadyInitialized(hasInitialized)
    /\ hasInitialized' = TRUE
    /\ mutex' = NoThread
    /\ pc' = [pc EXCEPT ![t] = "init_endpoint"]
    /\ UNCHANGED <<endpoint, projectID, useCache, cacheDuration, cacheSession,
                   cacheExpiration, now, nInit,
                   op, tok, mode, cfg, res, out, calls, ghosts>>

\* hasInitialized = true
InitFlag(t) ==
    /\ pc[t] = "init_check"
    /\ ~AlreadyInitialized(hasInitialized)
    /\ hasInitialized' = TRUE
    /\ pc' = [pc EXCEPT ![t] = "init_endpoint"]
    /\ UNCHANGED <<endpoint, projectID, useCache, cacheDuration, cacheSession,
                   cacheExpiration, mutex, now, nInit,
                   op, tok, mode, cfg, res, out, calls, ghosts>>

InitEndpoint(t) ==
    /\ pc[t] = "init_endpoint"
    /\ endpoint' = cfg[t].project_endpoint
    /\ pc' = [pc EXCEPT ![t] = "init_project"]
    /\ UNCHANGED <<hasInitialized, projectID, useCache, cacheDuration,
                   cacheSession, cacheExpiration, mutex, now, nInit,
                   op, tok, mode, cfg, res, out, calls, ghosts>>

InitProject(t) ==
    /\ pc[t] = "init_project"
    /\ projectID' = cfg[t].project_id
    /\ pc' = [pc EXCEPT ![t] = "init_usecache"]
    /\ UNCHANGED <<hasInitialized, endpoint, useCache, cacheDuration,
                   cacheSession, cacheExpiration, mutex, now, nInit,
                   op, tok, mode, cfg, res, out, calls, ghosts>>

InitUseCache(t) ==
    /\ pc[t] = "init_usecache"
    /\ useCache' = cfg[t].use_cache
    /\ pc' = [pc EXCEPT ![t] = "init_duration"]
    /\ UNCHANGED <<hasInitialized, endpoint, projectID, cacheDuration,
                   cacheSession, cacheExpiration, mutex, now, nInit,
                   op, tok, mode, cfg, res, out, calls, ghosts>>

InitDuration(t) ==
    /\ pc[t] = "init_duration"
    /\ cacheDuration' = cfg[t].cache_duration
    /\ pc' = [pc EXCEPT ![t] = "init_map"]
    /\ UNCHANGED <<hasInitialized, endpoint, projectID, useCache,
                   cacheSession, cacheExpiration, mutex, now, nInit,
                   op, tok, mode, cfg, res, out, calls, ghosts>>

InitMap(t) ==
    /\ pc[t] = "init_map"
    /\ cacheSession' = EmptyCache
    /\ pc' = [pc EXCEPT ![t] = "init_expiration"]
    /\ UNCHANGED <<hasInitialized, endpoint, projectID, useCache,
                   cacheDuration, cacheExpiration, mutex, now, nInit,
                   op, tok, mode, cfg, res, out, calls, ghosts>>

InitExpiration(t) ==
    /\ pc[t] = "init_expiration"
    /\ cacheExpiration' = now + cacheDuration
    /\ pc' = [pc EXCEPT ![t] = "init_unlock"]
    /\ UNCHANGED <<hasInitialized, endpoint, projectID, useCache,
                   cacheDuration, cacheSession, mutex, now, nInit,
                   op, tok, mode, cfg, res, out, calls, ghosts>>

\* deferred mutex.Unlock() on the normal return
InitUnlock(t) ==
    /\ pc[t] = "init_unlock"
    /\ mutex' = Released(t)
    /\ nInit' = nInit + 1
    /\ Leave(t, "initialized")
    /\ UNCHANGED <<globals, now, res, calls, ghosts>>

Initialize(t) ==
    \/ CallInitialize(t)
    \/ InitLock(t)
    \/ InitReject(t)
    \/ InitFlag(t)
    \/ InitEndpoint(t)
    \/ InitProject(t)
    \/ InitUseCache(t)
    \/ InitDuration(t)
    \/ InitMap(t)
    \/ InitExpiration(t)
    \/ InitUnlock(t)

\* ---- the seven public operations ----------------------------------------

\* Entry of a public operation: ensureInitialized() reads hasInitialized
\* without the lock and panics when it is false.
CallOp(t, o, k, m) ==
    /\ pc[t] = "idle"
    /\ res' = [res EXCEPT ![t] = NilMap]
    /\ calls' = [calls EXCEPT ![t] = 0]
    /\ IF NotInitialized(hasInitialized)
       THEN /\ out' = [out EXCEPT ![t] = "NotInitialized"]
            /\ UNCHANGED <<pc, op, tok, mode>>
       ELSE /\ pc'   = [pc EXCEPT ![t] = "lock1"]
            /\ op'   = [op EXCEPT ![t] = o]
            /\ tok'  = [tok EXCEPT ![t] = k]
            /\ mode' = [mode EXCEPT ![t] = m]
            /\ out'  = [out EXCEPT ![t] = "none"]
    /\ MutCleared(t)
    /\ HttpCleared(t)
    /\ UNCHANGED <<globals, mutex, now, nInit, cfg, track, gone, insAt>>

\* mutex.Lock() before ensureCache()
Lock1(t, o) == op[t] = o /\ Lock(t, "lock1", "ensureCache")

\* variant: the deadline is moved but the map is kept
ensureCacheKeepsEntries(t) ==
    IF ResetDue(useCache, now, cacheExpiration)
    THEN /\ cacheExpiration' = now + cacheDuration
         /\ Mutated(t)
         /\ UNCHANGED <<cacheSession, insAt>>
    ELSE UNCHANGED <<cacheExpiration, cacheSession, mut, insAt>>

\* ensureCache(), run under the lock.  The two time.Now() reads of a reset
\* are taken as one instant: the new deadline is the later read plus
\* cacheDuration, which is what a reset at that later instant gives.
ensureCache(t) ==
    IF ResetDue(useCache, now, cacheExpiration)
    THEN /\ cacheExpiration' = now + cacheDuration
         /\ cacheSession' = EmptyCache
         /\ Mutated(t)
         /\ Cleared
    ELSE UNCHANGED <<cacheExpiration, cacheSession, mut, insAt>>

\* ensureCache(); mutex.Unlock()
EnsureCacheUnlock(t, o) ==
    /\ op[t] = o
    /\ pc[t] = "ensureCache"
    /\ ensureCache(t)
    /\ mutex' = ReleasedBeforeCall(t)
    /\ pc' = [pc EXCEPT ![t] = "call"]
    /\ UNCHANGED <<hasInitialized, endpoint, projectID, useCache, cacheDuration,
                   now, nInit, op, tok, mode, cfg, res, out, calls, track, gone,
                   lastHttp>>

\* callApiRequest(...) and the test that follows it.  key is the cache key
\* the result would be stored under; needsToken is TRUE for SessionRefresh,
\* which asserts result["session_token"].(string) before it takes the lock:
\* a failed assertion panics out of the operation.
Transport(t, o, needsToken) ==
    /\ op[t] = o
    /\ pc[t] = "call"
    /\ \E h \in Outcomes(o) :
         LET r == callApiRequest(h) IN
           /\ res' = [res EXCEPT ![t] = r]
           /\ Sent(t, h)
           /\ IF ShouldStore(useCache, r)
              THEN IF needsToken /\ ~IsString(r.session_token)
                   THEN Leave(t, "panic") /\ gone' = gone
                   ELSE /\ pc' = [pc EXCEPT ![t] = "lock2"]
                        /\ Answered(IF o = "SessionInfo" THEN tok[t]
                                    ELSE r.session_token)
                        /\ UNCHANGED <<op, tok, mode, cfg, out>>
              ELSE Leave(t, "returned") /\ gone' = gone
    /\ calls' = [calls EXCEPT ![t] = calls[t] + 1]
    /\ UNCHANGED <<globals, mutex, now, nInit, track, mut, insAt>>

\* mutex.Lock() before the cache update
Lock2(t, o) == op[t] = o /\ Lock(t, "lock2", "write")

\* one statement that assigns cacheSession under the lock
Assign(t, m) ==
    /\ cacheSession' = m
    /\ IF m # cacheSession THEN Mutated(t) ELSE mut' = mut
    /\ UNCHANGED <<hasInitialized, endpoint, projectID, useCache,
                   cacheDuration, cacheExpiration, now, nInit, track,
                   lastHttp>>

\* SignInEmail and SignInSocial: ensureCache under the lock, then the call
SignIn(t, o) ==
    \/ CallOp(t, o, "", "")
    \/ Lock1(t, o)
    \/ EnsureCacheUnlock(t, o)
    \/ /\ op[t] = o
       /\ pc[t] = "call"
       /\ \E h \in Outcomes(o) :
            /\ res' = [res EXCEPT ![t] = callApiRequest(h)]
            /\ Sent(t, h)
       /\ calls' = [calls EXCEPT ![t] = calls[t] + 1]
       /\ Leave(t, "returned")
       /\ UNCHANGED <<globals, mutex, now, nInit, track, mut, gone, insAt>>

SignInEmail(t) == SignIn(t, "SignInEmail")

SignInSocial(t) == SignIn(t, "SignInSocial")

\* mutex.Lock() is already done;
\* cacheSession[result["session_token"].(string)] = result; mutex.Unlock().
\* A failed assertion panics while the lock is held, and no deferred Unlock
\* exists.
VerifyStore(t, o) ==
    /\ op[t] = o
    /\ pc[t] = "write"
    /\ IF IsString(res[t].session_token)
       THEN /\ Assign(t, MapPut(cacheSession, res[t].session_token, res[t]))
            /\ Stored(res[t].session_token)
            /\ mutex' = Released(t)
            /\ Leave(t, "returned")
            /\ UNCHANGED <<res, calls, gone>>
       ELSE /\ Leave(t, "panic")
            /\ UNCHANGED <<globals, mutex, now, nInit, res, calls, ghosts>>

Verify(t, o) ==
    \/ CallOp(t, o, "", "")
    \/ Lock1(t, o)
    \/ EnsureCacheUnlock(t, o)
    \/ Transport(t, o, FALSE)
    \/ Lock2(t, o)
    \/ VerifyStore(t, o)

SignInEmailVerify(t) == Verify(t, "SignInEmailVerify")

SignInSocialVerify(t) == Verify(t, "SignInSocialVerify")

\* mutex.Lock() is already done; ensureCache()
InfoEnsureCache(t) ==
    /\ op[t] = "SessionInfo"
    /\ pc[t] = "ensureCache"
    /\ ensureCache(t)
    /\ pc' = [pc EXCEPT ![t] = "check"]
    /\ UNCHANGED <<hasInitialized, endpoint, projectID, useCache, cacheDuration,
                   mutex, now, nInit, op, tok, mode, cfg, res, out, calls,
                   track, gone, lastHttp>>

\* the lookup of SessionInfo and the mutex.Unlock() of either branch
InfoCheck(t) ==
    /\ op[t] = "SessionInfo"
    /\ pc[t] = "check"
    /\ IF CacheHit(useCache, now, cacheExpiration, cacheSession, tok[t])
       THEN /\ res' = [res EXCEPT ![t] = cacheSession[tok[t]]]
            /\ mutex' = Released(t)
            /\ Leave(t, "returned")
       ELSE /\ mutex' = ReleasedBeforeCall(t)
            /\ pc' = [pc EXCEPT ![t] = "call"]
            /\ UNCHANGED <<op, tok, mode, cfg, res, out>>
    /\ UNCHANGED <<globals, now, nInit, calls, ghosts>>

\* cacheSession[sessionToken] = result; mutex.Unlock()
InfoStore(t) ==
    /\ op[t] = "SessionInfo"
    /\ pc[t] = "write"
    /\ Assign(t, MapPut(cacheSession, tok[t], res[t]))
    /\ Stored(tok[t])
    /\ mutex' = Released(t)
    /\ Leave(t, "returned")
    /\ UNCHANGED <<res, calls, gone>>

SessionInfo(t) ==
    \/ \E k \in Tokens : CallOp(t, "SessionInfo", k, "")
    \/ Lock1(t, "SessionInfo")
    \/ InfoEnsureCache(t)
    \/ InfoCheck(t)
    \/ Transport(t, "SessionInfo", FALSE)
    \/ Lock2(t, "SessionInfo")
    \/ InfoStore(t)

\* variant: the old token is left in the map
RefreshKeepsOld(t) ==
    /\ op[t] = "SessionRefresh"
    /\ pc[t] = "write"
    /\ pc' = [pc EXCEPT ![t] = "write2"]
    /\ UNCHANGED <<globals, mutex, now, nInit, op, tok, mode, cfg, res, out,
                   calls, ghosts>>

\* variant: the delete and the store are two critical sections
RefreshDeleteUnlocks(t) ==
    /\ op[t] = "SessionRefresh"
    /\ pc[t] = "write"
    /\ Assign(t, MapDelete(cacheSession, tok[t]))
    /\ Dropped(tok[t])
    /\ mutex' = NoThread
    /\ pc' = [pc EXCEPT ![t] = "write2"]
    /\ UNCHANGED <<op, tok, mode, cfg, res, out, calls, gone>>

\* delete(cacheSession, sessionToken)
RefreshDelete(t) ==
    /\ op[t] = "SessionRefresh"
    /\ pc[t] = "write"
    /\ Assign(t, MapDelete(cacheSession, tok[t]))
    /\ Dropped(tok[t])
    /\ pc' = [pc EXCEPT ![t] = "write2"]
    /\ UNCHANGED <<mutex, op, tok, mode, cfg, res, out, calls, gone>>

\* cacheSession[newToken] = result; mutex.Unlock()
RefreshStore(t) ==
    /\ op[t] = "SessionRefresh"
    /\ pc[t] = "write2"
    /\ Assign(t, MapPut(cacheSession, res[t].session_token, res[t]))
    /\ Stored(res[t].session_token)
    /\ mutex' = Released(t)
    /\ IF res[t].session_token # tok[t]
       THEN Removed(tok[t], "refreshed") ELSE gone' = gone
    /\ Leave(t, "returned")
    /\ UNCHANGED <<res, calls>>

SessionRefresh(t) ==
    \/ \E k \in Tokens : CallOp(t, "SessionRefresh", k, "")
    \/ Lock1(t, "SessionRefresh")
    \/ EnsureCacheUnlock(t, "SessionRefresh")
    \/ Transport(t, "SessionRefresh", TRUE)
    \/ Lock2(t, "SessionRefresh")
    \/ RefreshDelete(t)
    \/ RefreshStore(t)

\* delete(cacheSession, sessionToken); mutex.Unlock()
InvalidateDelete(t) ==
    /\ op[t] = "SessionInvalidate"
    /\ pc[t] = "write"
    /\ Assign(t, MapDelete(cacheSession, tok[t]))
    /\ Dropped(tok[t])
    /\ mutex' = Released(t)
    /\ Removed(tok[t], "invalidated")
    /\ Leave(t, "returned")
    /\ UNCHANGED <<res, calls>>

SessionInvalidate(t) ==
    \/ \E k \in Tokens, m \in Modes : CallOp(t, "SessionInvalidate", k, m)
    \/ Lock1(t, "SessionInvalidate")
    \/ EnsureCacheUnlock(t, "SessionInvalidate")
    \/ Transport(t, "SessionInvalidate", FALSE)
    \/ Lock2(t, "SessionInvalidate")
    \/ InvalidateDelete(t)

Next ==
    \/ Tick
    \/ \E t \in Threads : Initialize(t)
    \/ \E t \in Threads : SignInEmail(t)
    \/ \E t \in Threads : SignInEmailVerify(t)
    \/ \E t \in Threads : SignInSocial(t)
    \/ \E t \in Threads : SignInSocialVerify(t)
    \/ \E t \in Threads : SessionInfo(t)
    \/ \E t \in Threads : SessionRefresh(t)
    \/ \E t \in Threads : SessionInvalidate(t)

Spec == Init /\ [][Next]_vars

SpecMut == InitMut /\ [][Next]_vars

SpecTok == InitTok /\ [][Next]_vars

SpecHttp == InitHttp /\ [][Next]_vars

SpecAge == InitAge /\ [][Next]_vars

\* ---- step predicates used by the properties -------------------------------

\* thread t takes a step of its own
Moves(t) == <<pc[t], op[t], out[t], res[t], calls[t]>>'
              # <<pc[t], op[t], out[t], res[t], calls[t]>>

\* ---- properties -----------------------------------------------------------

\* C1: in every reachable state every record stored in the cache has
\* error = "no_error"; no operation ever stores a result whose error is
\* connection_error, a remote-reported error, or missing.
C1_CacheHoldsOnlySuccesses ==
    \A k \in DOMAIN cacheSession : cacheSession[k].error = "no_error"

\* C1 witness: both tokens are cached, one by a token-issuing operation and
\* one by SessionInfo
C1_Witness ==
    /\ DOMAIN cacheSession = Tokens
    /\ \E k \in Tokens : cacheSession[k].session_token = Nil
    /\ \E k \in Tokens : cacheSession[k].session_token = k

\* the lookup step of SessionInfo by t
InfoLookup(t) == op[t] = "SessionInfo" /\ pc[t] = "check" /\ pc'[t] # "check"

\* thread t executes a statement that stores a record under key k
StoresKey(t, k) ==
    /\ Moves(t)
    /\ \/ op[t] \in IssuingOps /\ pc[t] = "write"  /\ op[t] # "SessionRefresh"
          /\ res[t].session_token = k
       \/ op[t] = "SessionRefresh" /\ pc[t] = "write2"
          /\ res[t].session_token = k
       \/ op[t] = "SessionInfo" /\ pc[t] = "write" /\ tok[t] = k

\* a key that was absent is present only after a store under that key
AppearsOnlyByStore ==
    \A k \in Tokens :
        k \notin DOMAIN cacheSession /\ k \in DOMAIN cacheSession'
            => \E t \in Threads : StoresKey(t, k)

\* C2: with caching enabled, a record put under T stays cached until the
\* window is reset or a successful refresh or invalidate of T removes it,
\* and a SessionInfo(T) whose lookup finds it while now < cacheExpiration
\* returns that record without any HTTP exchange.
C2_HitWithinWindow ==
    [][ /\ \A t \in Threads :
              InfoLookup(t) /\ useCache /\ tok[t] \in DOMAIN cacheSession
                            /\ now < cacheExpiration
                => /\ pc'[t] = "idle"
                   /\ out'[t] = "returned"
                   /\ res'[t] = cacheSession[tok[t]]
                   /\ calls'[t] = 0
        /\ \A k \in Tokens :
              k \in DOMAIN cacheSession /\ k \notin DOMAIN cacheSession'
                => \/ cacheExpiration' # cacheExpiration
                   \/ \E t \in Threads :
                        /\ op[t] \in {"SessionRefresh", "SessionInvalidate"}
                        /\ pc[t] = "write" /\ pc'[t] # "write"
                        /\ tok[t] = k
                        /\ IsNoError(res[t])
      ]_vars

\* C2 witness: a call has returned a successful record without any HTTP
\* exchange (only a SessionInfo hit does)
C2_Witness ==
    \E t \in Threads :
        /\ pc[t] = "idle"
        /\ out[t] = "returned"
        /\ calls[t] = 0
        /\ IsNoError(res[t])
        /\ now < cacheExpiration

\* C3 as stated: once SessionInvalidate(T) has succeeded (and the remote
\* service has not since answered a call that stores T), every lookup of
\* SessionInfo(T) misses and goes to the HTTP call.
C3_Original ==
    [][ \A t \in Threads :
            InfoLookup(t) /\ tok[t] = TrackTok /\ gone = "invalidated"
                => pc'[t] = "call" ]_vars

\* C3 amended: the removal by a successful SessionInvalidate(T) leaves no
\* record under T; T is cached again only by a later store under T (of a
\* verify, refresh or SessionInfo, whenever its HTTP call was answered); and
\* a lookup of SessionInfo(T) that finds no record goes to the HTTP call.
C3_Amended ==
    [][ /\ \A t \in Threads :
              op[t] = "SessionInvalidate" /\ pc[t] = "write" /\ pc'[t] # "write"
                => /\ tok[t] \notin DOMAIN cacheSession'
                   /\ out'[t] = "returned"
        /\ AppearsOnlyByStore
        /\ \A t \in Threads :
              InfoLookup(t) /\ tok[t] \notin DOMAIN cacheSession
                => pc'[t] = "call" /\ calls'[t] = 0 /\ out'[t] = "none"
      ]_vars

\* C3 witness: after a successful invalidate of T, a SessionInfo(T) is at
\* its lookup inside the window and T is not cached
C3_Witness ==
    /\ gone = "invalidated"
    /\ TrackTok \notin DOMAIN cacheSession
    /\ useCache
    /\ now < cacheExpiration
    /\ \E t \in Threads :
          op[t] = "SessionInfo" /\ pc[t] = "check" /\ tok[t] = TrackTok

\* C4: once now >= cacheExpiration, ensureCache of any operation empties the
\* cache when now is past the deadline, nobody changes the cache between
\* the ensureCache and the lookup of a SessionInfo, and a lookup made at
\* now >= cacheExpiration (or on an emptied cache) never returns a cached
\* record: it goes to the HTTP call.
C4_ExpiredWindowNeverHits ==
    [][ \A t \in Threads :
          /\ pc[t] = "ensureCache" /\ pc'[t] # "ensureCache" /\ useCache
                /\ now > cacheExpiration
               => /\ cacheSession' = EmptyCache
                  /\ cacheExpiration' = now + cacheDuration
          /\ op[t] = "SessionInfo" /\ pc[t] = "check" /\ pc'[t] = "check"
               => /\ cacheSession' = cacheSession
                  /\ cacheExpiration' = cacheExpiration
          /\ InfoLookup(t)
                /\ (now >= cacheExpiration \/ tok[t] \notin DOMAIN cacheSession)
               => pc'[t] = "call" /\ out'[t] = "none" /\ res'[t] = NilMap
      ]_vars

\* C4 witness: a SessionInfo is at its lookup exactly at the deadline with
\* its token still in the map
C4_Witness ==
    \E t \in Threads :
        /\ op[t] = "SessionInfo"
        /\ pc[t] = "check"
        /\ useCache
        /\ now = cacheExpiration
        /\ tok[t] \in DOMAIN cacheSession

\* C5 as stated: from the cache update of a successful
\* SessionRefresh(old) -> new (new # old) on, and as long as the remote
\* service has not answered a later call that stores old, the cache holds no
\* record under old.
C5_Original ==
    gone = "refreshed" => TrackTok \notin DOMAIN cacheSession

\* C5 amended: between the delete and the store of a successful
\* SessionRefresh(old) -> new the lock is held and old is absent; when the
\* update finishes the cache holds the result under new and, if new # old,
\* nothing under old; afterwards old is cached again only by a later store
\* under old.
C5_Amended ==
    [][ /\ \A t \in Threads :
              op[t] = "SessionRefresh" /\ pc[t] = "write2"
                => /\ mutex = t
                   /\ tok[t] \notin DOMAIN cacheSession
        /\ \A t \in Threads :
              op[t] = "SessionRefresh" /\ pc[t] = "write2" /\ pc'[t] # "write2"
                => /\ res[t].session_token \in DOMAIN cacheSession'
                   /\ cacheSession'[res[t].session_token] = res[t]
                   /\ res[t].session_token # tok[t]
                        => tok[t] \notin DOMAIN cacheSession'
                   /\ out'[t] = "returned"
        /\ AppearsOnlyByStore
      ]_vars

\* C5 witness: a refresh of tok1 into tok2 has updated the cache: tok2 is
\* cached with its record and tok1 is not
C5_Witness ==
    /\ gone = "refreshed"
    /\ TrackTok \notin DOMAIN cacheSession
    /\ "tok2" \in DOMAIN cacheSession
    /\ cacheSession["tok2"].session_token = "tok2"

\* C6 as stated: a call that returned a result whose error is not no_error
\* has not changed the entries or the deadline.
C6_Original ==
    \A t \in Threads :
        pc[t] = "idle" /\ out[t] = "returned" /\ ~IsNoError(res[t])
            => ~mut[t]

\* C6 amended: when the HTTP call yields a result whose error is not
\* no_error the operation returns it at once, touching neither the lock nor
\* the cache; and every change a call makes to the entries or the deadline
\* is either the reset of ensureCache (before the HTTP call) or a store or
\* delete made after one HTTP call that yielded no_error.
C6_Amended ==
    [][ \A t \in Threads :
          /\ pc[t] = "call" /\ pc'[t] # "call" /\ ~IsNoError(res'[t])
               => /\ pc'[t] = "idle"
                  /\ out'[t] = "returned"
                  /\ mutex' = mutex
                  /\ UNCHANGED globals
          /\ Moves(t) /\ <<cacheSession, cacheExpiration>>'
                            # <<cacheSession, cacheExpiration>>
               => \/ pc[t] = "ensureCache"
                  \/ op[t] = "Initialize"
                  \/ /\ pc[t] \in {"write", "write2"}
                     /\ IsNoError(res[t])
                     /\ calls[t] = 1
      ]_vars

\* C6 witness: a call made one HTTP exchange, returned an error result, and
\* its ensureCache had reset the cache window
C6_Witness ==
    \E t \in Threads :
        /\ pc[t] = "idle"
        /\ out[t] = "returned"
        /\ ~IsNoError(res[t])
        /\ calls[t] = 1
        /\ mut[t]

\* C7: Initialize holds the lock from its check to its return; a call that
\* finds hasInitialized set panics (AlreadyInitialized) and leaves the
\* configuration, the entries and the deadline as they were; at most one
\* Initialize call ever returns normally.
C7_SecondInitializeRejected ==
    /\ [](nInit <= 1)
    /\ [](\A t \in Threads :
             op[t] = "Initialize" /\ pc[t] # "init_lock" => mutex = t)
    /\ [][ \A t \in Threads :
             pc[t] = "init_check" /\ hasInitialized /\ pc'[t] # "init_check"
               => /\ pc'[t] = "idle"
                  /\ out'[t] = "AlreadyInitialized"
                  /\ nInit' = nInit
                  /\ UNCHANGED globals ]_vars

\* C7 witness: one Initialize has returned and another was rejected
C7_Witness ==
    /\ nInit = 1
    /\ \E t \in Threads : pc[t] = "idle" /\ out[t] = "AlreadyInitialized"

\* C8: a public operation called while hasInitialized is false panics
\* (NotInitialized) in that very step: it does not take the lock, does not
\* touch the configuration or the cache and makes no HTTP exchange.
C8_NotInitializedBeforeAnything ==
    [][ \A t \in Threads :
          pc[t] = "idle" /\ ~hasInitialized /\ Moves(t)
                /\ op'[t] # "Initialize"
            => /\ pc'[t] = "idle"
               /\ out'[t] = "NotInitialized"
               /\ calls'[t] = 0
               /\ mutex' = mutex
               /\ UNCHANGED globals ]_vars

\* C8 witness: an operation has failed with NotInitialized while the other
\* thread is inside its (first) Initialize
C8_Witness ==
    /\ ~hasInitialized
    /\ \E t, u \in Threads :
          /\ out[t] = "NotInitialized"
          /\ pc[u] = "init_check"

\* C9 (its last clause): a public operation invoked after initialization
\* never terminates abnormally, whatever the HTTP exchange came to.
C9_NeverTerminatesAbnormally ==
    \A t \in Threads : out[t] # "panic"

\* C10: no thread holds the mutex while its HTTP call is in progress, on
\* any operation: the lock taken for ensureCache (and for the lookup of
\* SessionInfo) is released before the call and the lock for the cache
\* update is taken only after it.
C10_NoLockAcrossTransport ==
    \A t \in Threads : pc[t] = "call" => mutex # t

\* C10 witness: one thread is in its HTTP call for SessionInfo (miss path)
\* while the other holds the mutex
C10_Witness ==
    \E t, u \in Threads :
        /\ t # u
        /\ pc[t] = "call"
        /\ op[t] = "SessionInfo"
        /\ mutex = u

\* the positions at which a thread reads or writes the entries, the
\* deadline or the configuration
AccessPcs == {"ensureCache", "check", "write", "write2", "init_check",
              "init_endpoint", "init_project", "init_usecache",
              "init_duration", "init_map", "init_expiration", "init_unlock"}

\* the positions of Initialize between its first and its last assignment
InitWritingPcs == {"init_endpoint", "init_project", "init_usecache",
                   "init_duration", "init_map", "init_expiration",
                   "init_unlock"}

SignInOps == {"SignInEmail", "SignInSocial"}

\* C11 as stated: no operation reads or writes the entries at a time
\* now >= cacheExpiration without the window having been reset first in the
\* same critical section, i.e. every lookup, store or delete runs at
\* now < cacheExpiration.
C11_Original ==
    [][ \A t \in Threads :
          Moves(t) /\ pc[t] \in {"check", "write", "write2"}
                   /\ out'[t] # "panic"
            => now < cacheExpiration ]_vars

\* C11 amended: every operation runs ensureCache once, in its first
\* critical section: it empties the map and starts a new window when now is
\* strictly past the deadline; the lookup of SessionInfo follows in that
\* same critical section and returns a record only at now < cacheExpiration;
\* the stores and deletes after the HTTP call are a second critical section
\* that neither consults nor moves the deadline.
C11_Amended ==
    [][ \A t \in Threads :
          Moves(t)
            => /\ pc[t] = "ensureCache" /\ useCache /\ now > cacheExpiration
                    => /\ cacheSession' = EmptyCache
                       /\ cacheExpiration' = now + cacheDuration
                       /\ now < cacheExpiration'
               /\ pc'[t] = "check"
                    => pc[t] = "ensureCache" /\ mutex = t /\ mutex' = t
               /\ pc'[t] = "call" => pc[t] \in {"ensureCache", "check"}
               /\ InfoLookup(t) /\ pc'[t] = "idle"
                    => mutex = t /\ now < cacheExpiration
               /\ pc[t] \in {"write", "write2"}
                    => mutex = t /\ cacheExpiration' = cacheExpiration ]_vars

\* C11 witness: with caching enabled a thread holds the lock and is about
\* to store its result after the deadline has passed
C11_Witness ==
    \E t \in Threads :
        /\ pc[t] = "write" /\ mutex = t
        /\ op[t] \in {"SignInEmailVerify", "SignInSocialVerify", "SessionInfo"}
        /\ useCache
        /\ now > cacheExpiration

\* C12: the delete and the store of a successful SessionRefresh are one
\* critical section: from the lock to the unlock the refreshing thread holds
\* the mutex, no other thread is at a position that accesses the cache,
\* nobody else changes the map, and when new = old the token ends up cached
\* with the new record.
C12_RefreshIsOneCriticalSection ==
    /\ [](\A t \in Threads :
            op[t] = "SessionRefresh" /\ pc[t] \in {"write", "write2"}
              => /\ mutex = t
                 /\ \A u \in Threads \ {t} : pc[u] \notin AccessPcs)
    /\ [][ \A t \in Threads :
             /\ op[t] = "SessionRefresh" /\ pc[t] \in {"write", "write2"}
                   /\ ~Moves(t)
                  => cacheSession' = cacheSession
             /\ op[t] = "SessionRefresh" /\ pc[t] = "write" /\ Moves(t)
                  => pc'[t] = "write2" /\ mutex' = t
             /\ op[t] = "SessionRefresh" /\ pc[t] = "write2" /\ Moves(t)
                   /\ res[t].session_token = tok[t]
                  => /\ tok[t] \in DOMAIN cacheSession'
                     /\ cacheSession'[tok[t]] = res[t] ]_vars

\* C12 witness: a refresh whose new token equals the old one is between its
\* delete and its store while the other thread waits for the lock to look
\* the same token up
C12_Witness ==
    \E t, u \in Threads :
        /\ op[t] = "SessionRefresh" /\ pc[t] = "write2"
        /\ res[t].session_token = tok[t]
        /\ op[u] = "SessionInfo" /\ pc[u] = "lock1" /\ tok[u] = tok[t]

\* C13: a thread at a position that reads or writes the entries or the
\* deadline holds the mutex, at most one thread is at such a position, and
\* every step that changes the entries or the deadline is taken by the
\* holder of the mutex.
C13_AccessesUnderTheLock ==
    /\ [](\A t \in Threads : pc[t] \in AccessPcs => mutex = t)
    /\ [](Cardinality({t \in Threads : pc[t] \in AccessPcs}) <= 1)
    /\ [][ <<cacheSession, cacheExpiration>>' # <<cacheSession, cacheExpiration>>
             => \E t \in Threads : mutex = t /\ Moves(t) ]_vars

\* C13 witness: one thread is about to write the map under the lock while
\* the other waits for the lock
C13_Witness ==
    \E t, u \in Threads :
        /\ pc[t] = "write" /\ mutex = t
        /\ pc[u] \in {"lock1", "lock2"}

\* C14 as stated: a SignInEmail or SignInSocial call returns without having
\* changed the entries or the deadline.
C14_Original ==
    [][ \A t \in Threads :
          op[t] \in SignInOps /\ pc[t] = "call" /\ pc'[t] = "idle"
            => ~mut[t] ]_vars

\* C14 amended: SignInEmail and SignInSocial never store or delete an entry;
\* their only step that can change the entries or the deadline is
\* ensureCache, which leaves both alone unless now is past the deadline and
\* caching is enabled, and then empties the map and starts a new window.
C14_Amended ==
    [][ \A t \in Threads :
          op[t] \in SignInOps /\ Moves(t)
            => /\ pc'[t] \in {"ensureCache", "call", "idle"}
               /\ pc[t] # "ensureCache"
                    => UNCHANGED <<cacheSession, cacheExpiration>>
               /\ pc[t] = "ensureCache"
                    => IF useCache /\ now > cacheExpiration
                       THEN /\ cacheSession' = EmptyCache
                            /\ cacheExpiration' = now + cacheDuration
                       ELSE UNCHANGED <<cacheSession, cacheExpiration>> ]_vars

\* C14 witness: a SignInEmail or SignInSocial is at its HTTP call after its
\* ensureCache reset the window
C14_Witness ==
    \E t \in Threads : op[t] \in SignInOps /\ pc[t] = "call" /\ mut[t]

C16_Status200IsNoError ==
    \A t \in Threads :
        lastHttp[t] # NoHttp
            => /\ lastHttp[t].fail => res[t] = ConnErr
               /\ ~lastHttp[t].fail /\ lastHttp[t].status = 200
                    => res[t].error = "no_error"

\* C17: with caching disabled the map stays empty, and every SessionInfo
\* misses at its lookup, makes exactly one HTTP exchange and returns its
\* result without storing it.
C17_DisabledCacheStaysEmpty ==
    /\ [](~useCache => cacheSession = EmptyCache)
    /\ [][ \A t \in Threads :
             op[t] = "SessionInfo" /\ ~useCache
               => /\ InfoLookup(t) => pc'[t] = "call" /\ calls'[t] = 0
                  /\ pc[t] = "call" /\ Moves(t)
                       => /\ pc'[t] = "idle"
                          /\ out'[t] = "returned"
                          /\ calls'[t] = 1 ]_vars

\* C17 witness: initialized with caching disabled, a call returned a
\* successful result after one HTTP exchange and the map is empty
C17_Witness ==
    /\ nInit = 1
    /\ ~useCache
    /\ cacheSession = EmptyCache
    /\ \E t \in Threads :
          /\ pc[t] = "idle" /\ out[t] = "returned"
          /\ calls[t] = 1 /\ IsNoError(res[t])

\* C18 as stated: whenever no thread is inside Initialize or a public
\* operation, the mutex is free.
C18_LockFreeWhenIdle ==
    (\A t \in Threads : pc[t] = "idle") => mutex = NoThread

\* C19: a record that SessionInfo returns from the cache was stored no
\* earlier than the start of the current window (the last reset, or
\* Initialize), before the current deadline, and less than cacheDuration
\* before the hit; the record under a token is tracked exactly while the
\* token is in the map.
C19_HitIsYoungerThanWindow ==
    /\ [](track = "age" => (TrackTok \in DOMAIN cacheSession <=> insAt >= 0))
    /\ [][ \A t \in Threads :
             InfoLookup(t) /\ tok[t] = TrackTok /\ pc'[t] = "idle"
               => /\ insAt >= 0
                  /\ insAt >= cacheExpiration - cacheDuration
                  /\ insAt <= now
                  /\ now < cacheExpiration
                  /\ now - insAt < cacheDuration
                  /\ res'[t] = cacheSession[TrackTok] ]_vars

\* C19 witness: after a reset of the window (its start is later than
\* Initialize) a SessionInfo is at its lookup, within the window, with its
\* token stored in the map
C19_Witness ==
    \E t \in Threads :
        /\ op[t] = "SessionInfo" /\ pc[t] = "check" /\ tok[t] = TrackTok
        /\ insAt >= 0
        /\ now < cacheExpiration
        /\ cacheExpiration - cacheDuration > 0

\* the configuration, the map and the deadline are those of one completed
\* Initialize call
ConfigComplete ==
    /\ nInit = 1
    /\ \A u \in Threads : pc[u] \notin InitWritingPcs
    /\ \E c \in Configs :
          /\ endpoint = c.project_endpoint
          /\ projectID = c.project_id
          /\ useCache = c.use_cache
          /\ cacheDuration = c.cache_duration
    /\ cacheExpiration >= cacheDuration

\* C20: a public operation that got past ensureInitialized (possibly while
\* Initialize was still assigning) does every step after its first Lock --
\* its cache accesses, its HTTP call and its stores -- with the
\* configuration of a completed Initialize; until then it waits at the Lock.
C20_NoPartialConfiguration ==
    \A t \in Threads :
        op[t] \notin {"none", "Initialize"} /\ pc[t] \notin {"idle", "lock1"}
            => ConfigComplete

\* C20 witness: an operation has passed ensureInitialized and waits for the
\* lock while Initialize has set the flag but not yet the endpoint
C20_Witness ==
    \E t, u \in Threads :
        /\ op[t] \notin {"none", "Initialize"} /\ pc[t] = "lock1"
        /\ pc[u] = "init_endpoint"
====
